---- MODULE Spec2Model ----
(***************************************************************************)
(* The analysis pipeline and the incident ledger of backend/main.py: the   *)
(* handlers of the FastAPI application, run by one asyncio event loop, the *)
(* incidents file they share, and the pure functions they apply           *)
(* (fence stripping, JSON parsing, pydantic construction, incident        *)
(* derivation, filtering).                                                 *)
(***************************************************************************)
EXTENDS Integers, Sequences, FiniteSets, TLC

(***************************************************************************)
(* JSON values.  A value is a record whose only field names its kind, so   *)
(* that values of different kinds can be compared.  Floats are kept in     *)
(* tenths (0.5 is JFloat(5)).                                              *)
(***************************************************************************)
JInt(n) == [int |-> n]
JFloat(t) == [tenths |-> t]
JStr(s) == [str |-> s]
JNull == [null |-> TRUE]
JList(q) == [list |-> q]
JObj(f) == [obj |-> f]

IsInt(v) == DOMAIN v = {"int"}
IsFloat(v) == DOMAIN v = {"tenths"}
IsStr(v) == DOMAIN v = {"str"}
IsList(v) == DOMAIN v = {"list"}
IsObj(v) == DOMAIN v = {"obj"}

EmptyDict == JObj(<<>>)

\* dict.get(key, default)
Get(d, key, default) == IF key \in DOMAIN d THEN d[key] ELSE default

\* The outcome of a call: a value, or a raised exception.
Ok(v) == [ok |-> TRUE, v |-> v]
Raise(e) == [ok |-> FALSE, exc |-> e]

\* Python's list[:n]
Take(q, n) == SubSeq(q, 1, IF Len(q) < n THEN Len(q) ELSE n)

(***************************************************************************)
(* pydantic (v2, lax mode) field validation.  <<x>> is the validated       *)
(* value, <<>> a ValidationError.                                          *)
(***************************************************************************)
\* Strings that int() accepts, among the strings of the model.
NumericStr == ("70" :> 70) @@ ("150" :> 150)

int_field(v) ==
    IF IsInt(v) THEN <<v.int>>
    ELSE IF IsFloat(v) /\ v.tenths % 10 = 0 THEN <<v.tenths \div 10>>
    ELSE IF IsStr(v) /\ v.str \in DOMAIN NumericStr THEN <<NumericStr[v.str]>>
    ELSE <<>>

float_field(v) ==
    IF IsInt(v) THEN <<10 * v.int>>
    ELSE IF IsFloat(v) THEN <<v.tenths>>
    ELSE IF IsStr(v) /\ v.str \in DOMAIN NumericStr THEN <<10 * NumericStr[v.str]>>
    ELSE <<>>

str_field(v) == IF IsStr(v) THEN <<v.str>> ELSE <<>>

str_list_field(v) ==
    IF IsList(v) /\ \A i \in 1..Len(v.list) : IsStr(v.list[i])
    THEN << [i \in 1..Len(v.list) |-> v.list[i].str] >>
    ELSE <<>>

(***************************************************************************)
(* The schema: field names in declaration order, and the constructors.     *)
(***************************************************************************)
DimensionNames ==
    << "pii", "financial", "strategic_business", "intellectual_property",
       "legal_compliance", "operational_security", "hr_employee" >>

DepartmentNames ==
    << "HR", "Finance", "Legal", "IT_Security", "Executive", "RnD", "Sales",
       "Operations", "Marketing" >>

Range(q) == {q[i] : i \in 1..Len(q)}

\* DimensionScores(**kw): unknown keys are ignored, absent fields are 0.
DimensionScores_all_required(kw) ==
    IF \/ \E k \in DOMAIN kw \cap Range(DimensionNames) : int_field(kw[k]) = <<>>
       \/ \E k \in Range(DimensionNames) : k \notin DOMAIN kw
    THEN Raise("ValidationError")
    ELSE Ok([k \in Range(DimensionNames) |-> int_field(kw[k])[1]])
DimensionScores(kw) ==
    IF \E k \in DOMAIN kw \cap Range(DimensionNames) : int_field(kw[k]) = <<>>
    THEN Raise("ValidationError")
    ELSE Ok([k \in Range(DimensionNames) |->
                IF k \in DOMAIN kw THEN int_field(kw[k])[1] ELSE 0])

\* DepartmentRelevance(**kw): unknown keys are ignored, absent fields are "NONE".
DepartmentRelevance(kw) ==
    IF \E k \in DOMAIN kw \cap Range(DepartmentNames) : str_field(kw[k]) = <<>>
    THEN Raise("ValidationError")
    ELSE Ok([k \in Range(DepartmentNames) |->
                IF k \in DOMAIN kw THEN str_field(kw[k])[1] ELSE "NONE"])

\* Finding(**kw): category, severity and description are required.
Finding(kw) ==
    IF \/ \E k \in {"category", "severity", "description"} :
             k \notin DOMAIN kw \/ str_field(kw[k]) = <<>>
       \/ "count" \in DOMAIN kw /\ int_field(kw["count"]) = <<>>
       \/ "examples" \in DOMAIN kw /\ str_list_field(kw["examples"]) = <<>>
    THEN Raise("ValidationError")
    ELSE Ok([category |-> kw["category"].str,
             severity |-> kw["severity"].str,
             description |-> kw["description"].str,
             count |-> IF "count" \in DOMAIN kw THEN int_field(kw["count"])[1] ELSE 1,
             examples |-> IF "examples" \in DOMAIN kw
                          THEN str_list_field(kw["examples"])[1] ELSE <<>>])

\* [Finding(**f) for f in value]
Findings(value) ==
    IF IsList(value)
    THEN IF \E i \in 1..Len(value.list) : ~IsObj(value.list[i])
         THEN Raise("TypeError")
         ELSE IF \E i \in 1..Len(value.list) : ~Finding(value.list[i].obj).ok
         THEN Raise("ValidationError")
         ELSE Ok([i \in 1..Len(value.list) |-> Finding(value.list[i].obj).v])
    ELSE IF value = EmptyDict \/ value = JStr("")
    THEN Ok(<<>>)
    ELSE Raise("TypeError")

(***************************************************************************)
(* Oracle texts.  A text is the sequence of its lines (str.split("\n"),    *)
(* never empty), a line the sequence of its tokens.  The token FENCE stands *)
(* for three backticks; a token that names an entry of Payloads is one        *)
(* complete JSON document; the token DEEP stands for brackets nested       *)
(* deeper than the interpreter's recursion limit; every other token is not *)
(* JSON.                                                                   *)
(***************************************************************************)
Fence == "FENCE"
Deep == "DEEP"

GoodFinding ==
    JObj([category |-> JStr("financial"), severity |-> JStr("HIGH"),
          description |-> JStr("salary table"), count |-> JInt(2),
          examples |-> JList(<<JStr("[REDACTED]")>>)])

Payloads ==
    [ GOOD |-> JObj([overall_sensitivity_score |-> JInt(95),
                     sensitivity_level |-> JStr("CRITICAL"),
                     confidence |-> JFloat(9),
                     dimension_scores |-> JObj([pii |-> JInt(20), financial |-> JInt(70),
                                                legal_compliance |-> JInt(50)]),
                     department_relevance |-> JObj([HR |-> JStr("NONE"),
                                                    Finance |-> JStr("HIGH"),
                                                    Legal |-> JStr("MEDIUM")]),
                     findings |-> JList(<<GoodFinding>>),
                     regulatory_concerns |-> JList(<<JStr("SOX")>>),
                     recommended_actions |-> JList(<<JStr("restrict access")>>),
                     reasoning |-> JStr("salary data")]),
      EMPTY |-> EmptyDict,
      SPOOF |-> JObj([id |-> JStr("oracle-id"), timestamp |-> JStr("oracle-time"),
                      status |-> JStr("error"), error |-> JStr("oracle-error"),
                      overall_sensitivity_score |-> JInt(150),
                      sensitivity_level |-> JStr("critical"),
                      dimension_scores |-> JObj([hr_employee |-> JStr("70"),
                                                 pii |-> JInt(51), bogus |-> JNull]),
                      department_relevance |-> JObj([Marketing |-> JStr("CRITICAL"),
                                                     HR |-> JStr("HIGH"),
                                                     Sales |-> JStr("SEVERE")])]),
      ARRAY |-> JList(<<JInt(1)>>),
      BADSCORE |-> JObj([dimension_scores |-> JObj([pii |-> JStr("high")])]),
      BADDEPT |-> JObj([department_relevance |-> JObj([HR |-> JInt(3)])]),
      NOFIELD |-> JObj([findings |-> JList(<<JObj([category |-> JStr("pii")])>>)]),
      NULLLEVEL |-> JObj([sensitivity_level |-> JNull]) ]

Plain(p) == << <<p>> >>
Fenced(p) == << <<Fence, "json">>, <<p>>, <<Fence>> >>
FencedNewline(p) == << <<Fence, "json">>, <<p>>, <<Fence>>, <<>> >>
OpenFenceOnly(p) == << <<Fence>>, <<p>> >>
NotJson == << <<"not", "json">> >>
TooDeep == << <<Deep>> >>

RECURSIVE Flatten(_)
Flatten(lines) ==
    IF lines = <<>> THEN <<>> ELSE Head(lines) \o Flatten(Tail(lines))

\* "\n".join(lines): the text whose lines are lines; the join of no line is
\* the empty text, which has one (empty) line.
Join(lines) == IF lines = <<>> THEN << <<>> >> ELSE lines

\* main.py 345-348
strip_fence_first_line_only(response_text) ==
    IF Head(response_text) # <<>> /\ Head(Head(response_text)) = Fence
    THEN Join(Tail(response_text))
    ELSE response_text
strip_fence(response_text) ==
    IF Head(response_text) # <<>> /\ Head(Head(response_text)) = Fence
    THEN LET lines == response_text
         IN  Join(IF lines[Len(lines)] = <<Fence>>
                  THEN SubSeq(lines, 2, Len(lines) - 1)
                  ELSE Tail(lines))
    ELSE response_text

\* json.loads: white space between tokens (line ends included) is skipped.
\* The decoder recurses on nested arrays, and past the recursion limit it
\* raises RecursionError, which is no JSONDecodeError.
json_loads(text) ==
    LET toks == Flatten(text)
    IN  IF toks # <<>> /\ Head(toks) = Deep
        THEN Raise("RecursionError")
        ELSE IF toks = <<>> \/ Head(toks) \notin DOMAIN Payloads
        THEN Raise("JSONDecodeError: Expecting value")
        ELSE IF Len(toks) > 1
        THEN Raise("JSONDecodeError: Extra data")
        ELSE Ok(Payloads[Head(toks)])

IsJSONDecodeError(exc) ==
    exc \in {"JSONDecodeError: Expecting value", "JSONDecodeError: Extra data"}

\* f"Failed to parse AI response: {str(e)}"
parse_error_message(exc) ==
    IF exc = "JSONDecodeError: Extra data"
    THEN "Failed to parse AI response: Extra data"
    ELSE "Failed to parse AI response: Expecting value"

(***************************************************************************)
(* AnalysisResult (main.py 96-112).  Optional[str] is JNull or JStr.       *)
(***************************************************************************)
\* main.py 368: status="completed"
result_status_from_oracle(analysis_data) ==
    IF "status" \in DOMAIN analysis_data.obj /\ IsStr(analysis_data.obj["status"])
    THEN analysis_data.obj["status"].str
    ELSE "completed"
result_status(analysis_data) == "completed"

\* main.py 355: timestamp=timestamp
result_timestamp_from_oracle(timestamp, analysis_data) ==
    IF "timestamp" \in DOMAIN analysis_data.obj /\ IsStr(analysis_data.obj["timestamp"])
    THEN analysis_data.obj["timestamp"].str
    ELSE timestamp
result_timestamp(timestamp, analysis_data) == timestamp

\* main.py 353-369: the result built from the parsed oracle output.
completed_result(analysis_id, timestamp, request, analysis_data) ==
    IF ~IsObj(analysis_data) THEN Raise("AttributeError")
    ELSE
    LET d == analysis_data.obj
        dims == Get(d, "dimension_scores", EmptyDict)
        depts == Get(d, "department_relevance", EmptyDict)
        found == Findings(Get(d, "findings", JList(<<>>)))
        score == int_field(Get(d, "overall_sensitivity_score", JInt(0)))
        level == str_field(Get(d, "sensitivity_level", JStr("LOW")))
        conf == float_field(Get(d, "confidence", JFloat(5)))
        regs == str_list_field(Get(d, "regulatory_concerns", JList(<<>>)))
        acts == str_list_field(Get(d, "recommended_actions", JList(<<>>)))
        why == str_field(Get(d, "reasoning", JStr("")))
    IN  IF ~IsObj(dims) \/ ~IsObj(depts) THEN Raise("TypeError")
        ELSE IF ~DimensionScores(dims.obj).ok \/ ~DepartmentRelevance(depts.obj).ok
        THEN Raise("ValidationError")
        ELSE IF ~found.ok THEN Raise(found.exc)
        ELSE IF <<>> \in {score, level, conf, regs, acts, why}
        THEN Raise("ValidationError")
        ELSE Ok([id |-> analysis_id,
                 timestamp |-> result_timestamp(timestamp, analysis_data),
                 filename |-> request.filename,
                 filetype |-> request.filetype,
                 filesize |-> request.filesize,
                 overall_sensitivity_score |-> score[1],
                 sensitivity_level |-> level[1],
                 confidence |-> conf[1],
                 dimension_scores |-> DimensionScores(dims.obj).v,
                 department_relevance |-> DepartmentRelevance(depts.obj).v,
                 findings |-> found.v,
                 regulatory_concerns |-> regs[1],
                 recommended_actions |-> acts[1],
                 reasoning |-> why[1],
                 status |-> result_status(analysis_data),
                 error |-> JNull])

\* main.py 378-395: the result built when json.loads raised.
error_result(analysis_id, timestamp, request, exc) ==
    [id |-> analysis_id,
     timestamp |-> timestamp,
     filename |-> request.filename,
     filetype |-> request.filetype,
     filesize |-> request.filesize,
     overall_sensitivity_score |-> 0,
     sensitivity_level |-> "UNKNOWN",
     confidence |-> 0,
     dimension_scores |-> DimensionScores(<<>>).v,
     department_relevance |-> DepartmentRelevance(<<>>).v,
     findings |-> <<>>,
     regulatory_concerns |-> <<>>,
     recommended_actions |-> <<>>,
     reasoning |-> "",
     status |-> "error",
     error |-> JStr(parse_error_message(exc))]

\* main.py 345-369: fence stripping, parsing and construction, as one outcome.
parse_response(analysis_id, timestamp, request, response_text) ==
    LET parsed == json_loads(strip_fence(response_text))
    IN  IF parsed.ok
        THEN completed_result(analysis_id, timestamp, request, parsed.v)
        ELSE parsed

(***************************************************************************)
(* The incident ledger (main.py 140-179).                                  *)
(***************************************************************************)
MaxIncidents == 1000

\* main.py 153-173
\* main.py 155: if v > 50
is_top_category_from_50(v) == v >= 50
is_top_category(v) == v > 50

derive_incident(result, doc_hash) ==
    LET dim_scores == result.dimension_scores
        dept_rel == result.department_relevance
        top_cats == SelectSeq(DimensionNames, LAMBDA k : is_top_category(dim_scores[k]))
        affected_depts ==
            SelectSeq(DepartmentNames, LAMBDA k : dept_rel[k] \in {"HIGH", "CRITICAL"})
    IN  [id |-> result.id,
         timestamp |-> result.timestamp,
         filename |-> result.filename,
         filetype |-> result.filetype,
         filesize |-> result.filesize,
         sensitivity_level |-> result.sensitivity_level,
         overall_score |-> result.overall_sensitivity_score,
         top_categories |-> top_cats,
         departments_affected |-> affected_depts,
         status |-> result.status,
         hash |-> doc_hash]

\* main.py 175: incidents.insert(0, incident)
insert_back(incidents, incident) == Append(incidents, incident)
insert_twice(incidents, incident) == <<incident, incident>> \o incidents
insert_front(incidents, incident) == <<incident>> \o incidents

\* main.py 178: incidents[:1000]
keep_all(incidents) == incidents
keep_last(incidents) == Take(incidents, MaxIncidents)

\* main.py 153-178: the list add_incident hands to save_incidents.
add_incident(incidents, result, doc_hash) ==
    keep_last(insert_front(incidents, derive_incident(result, doc_hash)))

\* main.py 487
without_incident_and_older(incidents, incident_id) ==
    SelectSeq(incidents, LAMBDA i : i.id > incident_id)
without_incident(incidents, incident_id) ==
    SelectSeq(incidents, LAMBDA i : i.id # incident_id)

(***************************************************************************)
(* The incidents file.  json.dump then json.load gives back the list it    *)
(* was given, since an incident holds only strings, integers and lists of  *)
(* strings.  Opening the file for writing empties it: until the dump is written *)
(* the file holds no JSON document.                                        *)
(***************************************************************************)
NoFile == [exists |-> FALSE, torn |-> FALSE, data |-> <<>>]
OpenedFile == [exists |-> TRUE, torn |-> TRUE, data |-> <<>>]
WrittenFile(incidents) == [exists |-> TRUE, torn |-> FALSE, data |-> incidents]

\* main.py 140-144
load_incidents(f) ==
    IF ~f.exists THEN Ok(<<>>)
    ELSE IF f.torn THEN Raise("JSONDecodeError: Expecting value")
    ELSE Ok(f.data)

(***************************************************************************)
(* Reading the ledger (main.py 447-481).                                   *)
(***************************************************************************)
\* str.upper(), on the strings of the model.
Upper(s) ==
    CASE s \in {"critical", "Critical"} -> "CRITICAL"
      [] s = "low" -> "LOW"
      [] OTHER -> s

\* Truth value of an Optional[str] parameter: None and "" are false.
Truthy(opt) == IsStr(opt) /\ opt.str # ""

Min(a, b) == IF a < b THEN a ELSE b
Max(a, b) == IF a > b THEN a ELSE b

\* Python's q[start:stop]
Slice(q, start, stop) ==
    LET n == Len(q)
        lo == IF start < 0 THEN Max(start + n, 0) ELSE Min(start, n)
        hi == IF stop < 0 THEN Max(stop + n, 0) ELSE Min(stop, n)
    IN  SubSeq(q, lo + 1, hi)

\* main.py 458-459
filter_severity_exact(incidents, severity) ==
    IF Truthy(severity)
    THEN SelectSeq(incidents, LAMBDA i : i.sensitivity_level = severity.str)
    ELSE incidents
filter_severity(incidents, severity) ==
    IF Truthy(severity)
    THEN SelectSeq(incidents, LAMBDA i : i.sensitivity_level = Upper(severity.str))
    ELSE incidents

\* main.py 461-462
filter_department(incidents, department) ==
    IF Truthy(department)
    THEN SelectSeq(incidents,
                   LAMBDA i : department.str \in Range(i.departments_affected))
    ELSE incidents

\* main.py 455-472, given the loaded list.
get_incidents(loaded, limit, offset, severity, department) ==
    LET incidents == filter_department(filter_severity(loaded, severity), department)
    IN  [total |-> Len(incidents),
         offset |-> offset,
         limit |-> limit,
         incidents |-> Slice(incidents, offset, offset + limit)]

\* main.py 477-481: <<incident>> when found, <<>> for the 404.
get_incident(loaded, incident_id) ==
    LET hits == SelectSeq(loaded, LAMBDA i : i.id = incident_id)
    IN  Take(hits, 1)

\* round(total / den, 1) in tenths, num being 10 * total.  The quotient is
\* a binary float: when it lies halfway between two tenths in decimal, the
\* float is just above or just below, and round goes either way.
round_1(num, den) ==
    LET q == num \div den
        r == num % den
    IN  IF 2 * r < den THEN {q}
        ELSE IF 2 * r > den THEN {q + 1}
        ELSE {q, q + 1}

RECURSIVE sum(_)
sum(scores) == IF scores = <<>> THEN 0 ELSE Head(scores) + sum(Tail(scores))

\* How many times key occurs in the lists field of the incidents.
Occurrences(incidents, field, key) ==
    Cardinality({ix \in (1..Len(incidents)) \X (1..Len(DimensionNames)) :
                    /\ ix[2] <= Len(incidents[ix[1]][field])
                    /\ incidents[ix[1]][field][ix[2]] = key})

Keys(incidents, field) ==
    UNION {Range(incidents[k][field]) : k \in 1..Len(incidents)}

SeverityLevels == {"LOW", "MEDIUM", "HIGH", "CRITICAL"}

\* main.py 536
recent_critical_of_newest(incidents) ==
    SelectSeq(Take(incidents, 5), LAMBDA i : i.sensitivity_level = "CRITICAL")
recent_critical(incidents) ==
    Take(SelectSeq(incidents, LAMBDA i : i.sensitivity_level = "CRITICAL"), 5)

\* main.py 499-545, avg_score (in tenths) being the outcome of round.
get_statistics(incidents, avg_score) ==
    IF incidents = <<>>
    THEN [total_scans |-> 0,
          by_severity |-> [level \in SeverityLevels |-> 0],
          by_department |-> <<>>,
          by_category |-> <<>>,
          avg_score |-> 0,
          recent_critical |-> <<>>]
    ELSE [total_scans |-> Len(incidents),
          by_severity |->
              [level \in SeverityLevels \cup {"UNKNOWN"}
                         \cup {incidents[k].sensitivity_level : k \in 1..Len(incidents)} |->
                  Len(SelectSeq(incidents, LAMBDA i : i.sensitivity_level = level))],
          by_department |->
              [dept \in Keys(incidents, "departments_affected") |->
                  Occurrences(incidents, "departments_affected", dept)],
          by_category |->
              [cat \in Keys(incidents, "top_categories") |->
                  Occurrences(incidents, "top_categories", cat)],
          avg_score |-> avg_score,
          recent_critical |-> recent_critical(incidents)]

\* The scores get_statistics averages (main.py 532).
scores_of(incidents) == [k \in 1..Len(incidents) |-> incidents[k].overall_score]

(***************************************************************************)
(* The service.  uvicorn.run (main.py 561) starts one event loop; every    *)
(* handler is a coroutine on it, and runs from one await to the next       *)
(* without another handler running in between.                             *)
(***************************************************************************)
MaxRequests == 2

Requests == 1..MaxRequests

VARIABLES
    api_key,    \* the api_key of settings.json ("" when none is configured)
    file,       \* incidents.json
    reqs,       \* Requests -> the state of each request's handler
    running,    \* the request whose coroutine holds the event loop, or 0
    uuids,      \* how many ids uuid4() has handed out
    removed,    \* ids taken out of the ledger by delete, by clear or by the cap
    view        \* the last answer of a ledger query

vars == <<api_key, file, reqs, running, uuids, removed, view>>

\* The places where a coroutine is suspended: await file.read() (main.py 410).
AwaitPointsRacy == {"file_read", "save_open", "save_write"}
AwaitPoints == {"file_read"}

\* The holder of the event loop once request r has moved to pc.
Holder(r, pc) == IF pc \in AwaitPoints \cup {"done"} THEN 0 ELSE r

\* Request r is the coroutine the event loop runs next.
Scheduled(r) ==
    \/ running = r
    \/ running = 0 /\ reqs[r].pc \in AwaitPoints

\* What a request has done so far: the api_key its last load_settings returned,
\* how many credential checks it made, whether one of them saw an empty key,
\* what the oracle did, the exception raised, the saves completed.
NoTrace == [key |-> "unread", checks |-> 0, empty_key |-> FALSE, oracle |-> "none",
            exc |-> "none", saves |-> 0]

NewRequest == [kind |-> "none", arg |-> <<>>, pc |-> "new", loc |-> <<>>,
               resp |-> <<>>, trace |-> NoTrace]

Response(body) == [status |-> 200, body |-> body]
HTTPException(status_code, detail) == [status |-> status_code, detail |-> detail]

\* main.py 311, 407
ApiKeyNotConfigured ==
    HTTPException(400, "API key not configured. Please configure in Settings.")

\* if not settings.api_key (main.py 310, 406)
not_configured_never(key) == FALSE
not_configured(key) == key = ""

\* The except clauses of analyze_text (main.py 376, 399).
on_exception_all_recorded(exc) == "error_result"
on_exception(exc) == IF IsJSONDecodeError(exc) THEN "error_result" ELSE "http_500"

\* uuid4(): a value no earlier call returned.
uuid4(n) == n + 1

\* datetime.utcnow().isoformat() + "Z"
Timestamps == {"2026-01-01T00:00:00Z", "2026-01-01T00:00:01Z"}

\* hashlib.sha256(text).hexdigest()[:16], on the documents of the model.
sha256_16(text) ==
    CASE text = "payroll" -> "5a4f1c0e9b7d2a36"
      [] OTHER -> "c0ffee0123456789"

TextRequests ==
    { [document_text |-> "payroll", filename |-> "unknown",
       filetype |-> "unknown", filesize |-> "unknown"] }

Uploads ==
    { [filename |-> "notes.TXT", content |-> "payroll", size |-> "7 bytes"],
      [filename |-> "scan.pdf", content |-> "%PDF", size |-> "4 bytes"] }

\* filename.split(".")[-1].lower() if "." in filename else "unknown"
file_type(filename) ==
    CASE filename = "notes.TXT" -> "txt"
      [] filename = "scan.pdf" -> "pdf"
      [] OTHER -> "unknown"

supported_types ==
    {"txt", "csv", "json", "xml", "html", "md", "log", "py", "js", "ts", "yaml",
     "yml", "ini", "conf", "cfg"}

\* What client.messages.create can do (main.py 335-343).
OracleFailures == {"AuthenticationError", "APIConnectionError"}
OracleTexts ==
    { Fenced("GOOD"), Plain("SPOOF"), NotJson, FencedNewline("GOOD"), TooDeep,
      Plain("ARRAY"), Plain("BADSCORE"), Plain("NOFIELD") }

ApiKeyUpdates == {JNull, JStr(""), JStr("sk-ant-2")}

Ids(incidents) == {incidents[i].id : i \in 1..Len(incidents)}

Init ==
    /\ api_key \in {"", "sk-ant-1"}
    /\ file = NoFile
    /\ reqs = [r \in Requests |-> NewRequest]
    /\ running = 0
    /\ uuids = 0
    /\ removed = {}
    /\ view = <<>>

\* Request r moves to pc with locals loc and trace tr.
Goto(r, pc, loc, tr) ==
    /\ reqs' = [reqs EXCEPT ![r].pc = pc, ![r].loc = loc, ![r].trace = tr]
    /\ running' = Holder(r, pc)

\* Request r ends with response resp.
Finish(r, resp, tr) ==
    /\ reqs' = [reqs EXCEPT ![r].pc = "done", ![r].loc = <<>>,
                            ![r].resp = <<resp>>, ![r].trace = tr]
    /\ running' = 0

\* The framework can start the handler of request r: no coroutine holds the
\* event loop, and r is the first request not yet started.
Startable(r) ==
    /\ running = 0
    /\ reqs[r].pc = "new"
    /\ \A q \in Requests : q < r => reqs[q].pc # "new"

\* The handler of request r starts at entry, with argument arg and locals loc.
Dispatch(r, kind, arg, entry, loc) ==
    /\ reqs' = [reqs EXCEPT ![r] = [NewRequest EXCEPT !.kind = kind, !.arg = arg,
                                                      !.pc = entry, !.loc = loc]]
    /\ running' = Holder(r, entry)
    /\ UNCHANGED <<api_key, file, uuids, removed, view>>

\* Each dispatcher states its guard before it builds the request, so that the
\* request's argument is a value of the step that takes it.
DispatchAnalyzeText(r) ==
    /\ Startable(r)
    /\ \E request \in TextRequests :
           Dispatch(r, "analyze_text", request, "text_settings", [request |-> request])

DispatchAnalyzeFile(r) ==
    /\ Startable(r)
    /\ \E upload \in Uploads :
           Dispatch(r, "analyze_file", upload, "file_settings", <<>>)

DispatchUpdateSettings(r) ==
    /\ Startable(r)
    /\ \E update \in ApiKeyUpdates :
           Dispatch(r, "update_settings", update, "settings", <<>>)

DispatchDelete(r) ==
    /\ Startable(r)
    /\ \E incident_id \in 1..2 :
           Dispatch(r, "delete_incident", incident_id, "del_load", <<>>)

\* main.py 494: save_incidents([])
DispatchClear(r) ==
    /\ Startable(r)
    /\ Dispatch(r, "clear_incidents", <<>>, "save_open",
                [incidents |-> <<>>, gone |-> {}])

DispatchList(r) ==
    /\ Startable(r)
    /\ \E severity \in {JNull, JStr("CRITICAL")} :
           Dispatch(r, "get_incidents",
                    [limit |-> 50, offset |-> 0, severity |-> severity,
                     department |-> JNull],
                    "list", <<>>)

DispatchGet(r) ==
    /\ Startable(r)
    /\ \E incident_id \in 1..1 :
           Dispatch(r, "get_incident", incident_id, "get", <<>>)

DispatchStats(r) ==
    /\ Startable(r)
    /\ Dispatch(r, "get_statistics", <<>>, "stats", <<>>)

(***************************************************************************)
(* analyze_text (main.py 306-400)                                          *)
(***************************************************************************)
\* main.py 309-316: the credential check, then id, hash and timestamp.
AnalyzeTextSettings(r) ==
    /\ Scheduled(r)
    /\ reqs[r].pc = "text_settings"
    /\ LET settings == [api_key |-> api_key]
           tr == [reqs[r].trace EXCEPT
                     !.key = settings.api_key,
                     !.checks = @ + 1,
                     !.empty_key = @ \/ settings.api_key = ""]
       IN  IF not_configured(settings.api_key)
           THEN /\ Finish(r, ApiKeyNotConfigured, tr)
                /\ uuids' = uuids
           ELSE /\ \E now \in Timestamps :
                      Goto(r, "text_oracle",
                           [request |-> reqs[r].loc.request,
                            analysis_id |-> uuid4(uuids),
                            doc_hash |-> sha256_16(reqs[r].loc.request.document_text),
                            timestamp |-> now,
                            before |-> file],
                           tr)
                /\ uuids' = uuids + 1
    /\ UNCHANGED <<api_key, file, removed, view>>

\* main.py 378-397, entered from the except clause at 376: the error result
\* is built, and add_incident is called outside the try block.
RecordError(r, exc, tr) ==
    LET loc == reqs[r].loc
    IN  Goto(r, "add_load",
             [request |-> loc.request, analysis_id |-> loc.analysis_id,
              doc_hash |-> loc.doc_hash, timestamp |-> loc.timestamp,
              before |-> loc.before,
              result |-> error_result(loc.analysis_id, loc.timestamp, loc.request, exc),
              phase |-> "except"],
             tr)

\* An exception raised inside the try block (main.py 318-374).
RaiseInTry(r, exc, tr) ==
    IF on_exception(exc) = "error_result"
    THEN RecordError(r, exc, tr)
    ELSE Finish(r, HTTPException(500, "Analysis failed: " \o exc), tr)

\* main.py 319-343: the oracle is called; it fails, or answers with a text.
AnalyzeTextOracle(r) ==
    /\ Scheduled(r)
    /\ reqs[r].pc = "text_oracle"
    /\ \/ \E failure \in OracleFailures :
             RaiseInTry(r, failure, [reqs[r].trace EXCEPT !.oracle = failure,
                                                          !.exc = failure])
       \/ \E text \in OracleTexts :
             Goto(r, "text_parse",
                  [request |-> reqs[r].loc.request,
                   analysis_id |-> reqs[r].loc.analysis_id,
                   doc_hash |-> reqs[r].loc.doc_hash,
                   timestamp |-> reqs[r].loc.timestamp,
                   before |-> reqs[r].loc.before,
                   response_text |-> text],
                  [reqs[r].trace EXCEPT !.oracle = "text"])
    /\ UNCHANGED <<api_key, file, uuids, removed, view>>

\* main.py 345-369: strip the fence, parse, build the result.
AnalyzeTextParse(r) ==
    /\ Scheduled(r)
    /\ reqs[r].pc = "text_parse"
    /\ LET loc == reqs[r].loc
           parsed == parse_response(loc.analysis_id, loc.timestamp, loc.request,
                                    loc.response_text)
       IN  IF parsed.ok
           THEN Goto(r, "add_load",
                     [request |-> loc.request, analysis_id |-> loc.analysis_id,
                      doc_hash |-> loc.doc_hash, timestamp |-> loc.timestamp,
                      before |-> loc.before,
                      result |-> parsed.v, phase |-> "try"],
                     reqs[r].trace)
           ELSE RaiseInTry(r, parsed.exc, [reqs[r].trace EXCEPT !.exc = parsed.exc])
    /\ UNCHANGED <<api_key, file, uuids, removed, view>>

\* main.py 151-178: add_incident up to the call of save_incidents.  It is
\* called inside the try block (372) and from the except clause (396).
AddLoad(r) ==
    /\ Scheduled(r)
    /\ reqs[r].pc = "add_load"
    /\ LET loc == reqs[r].loc
           loaded == load_incidents(file)
       IN  IF loaded.ok
           THEN LET incidents == add_incident(loaded.v, loc.result, loc.doc_hash)
                IN  Goto(r, "save_open",
                         [result |-> loc.result, before |-> loc.before,
                          incidents |-> incidents,
                          gone |-> (Ids(loaded.v) \cup {loc.result.id})
                                      \ Ids(incidents)],
                         reqs[r].trace)
           ELSE IF loc.phase = "try"
           THEN RaiseInTry(r, loaded.exc, [reqs[r].trace EXCEPT !.exc = loaded.exc])
           ELSE Finish(r, HTTPException(500, "Internal Server Error"),
                       [reqs[r].trace EXCEPT !.exc = loaded.exc])
    /\ UNCHANGED <<api_key, file, uuids, removed, view>>

(***************************************************************************)
(* save_incidents (main.py 146-148), for add_incident, delete_incident and *)
(* clear_incidents, and the return of the handler that called it.          *)
(***************************************************************************)
\* main.py 147: open(INCIDENTS_FILE, 'w')
SaveOpen(r) ==
    /\ Scheduled(r)
    /\ reqs[r].pc = "save_open"
    /\ file' = OpenedFile
    /\ Goto(r, "save_write", reqs[r].loc, reqs[r].trace)
    /\ UNCHANGED <<api_key, uuids, removed, view>>

\* What the handler returns after its save (main.py 374, 397, 489, 495).
Returned(r) ==
    CASE reqs[r].kind = "delete_incident" ->
            Response([status |-> "deleted", id |-> reqs[r].arg])
      [] reqs[r].kind = "clear_incidents" ->
            Response([status |-> "cleared", message |-> "All incidents deleted"])
      [] OTHER -> Response(reqs[r].loc.result)

\* main.py 148: json.dump, and the file is closed; then the handler returns.
SaveWrite(r) ==
    /\ Scheduled(r)
    /\ reqs[r].pc = "save_write"
    /\ file' = WrittenFile(reqs[r].loc.incidents)
    /\ removed' = removed \cup (IF reqs[r].kind = "clear_incidents"
                                THEN 1..uuids ELSE reqs[r].loc.gone)
    /\ Finish(r, Returned(r), [reqs[r].trace EXCEPT !.saves = @ + 1])
    /\ UNCHANGED <<api_key, uuids, view>>

(***************************************************************************)
(* analyze_file (main.py 402-444)                                          *)
(***************************************************************************)
\* main.py 405-410: the credential check, then await file.read().
AnalyzeFileSettings(r) ==
    /\ Scheduled(r)
    /\ reqs[r].pc = "file_settings"
    /\ LET settings == [api_key |-> api_key]
           tr == [reqs[r].trace EXCEPT
                     !.key = settings.api_key,
                     !.checks = @ + 1,
                     !.empty_key = @ \/ settings.api_key = ""]
       IN  IF not_configured(settings.api_key)
           THEN Finish(r, ApiKeyNotConfigured, tr)
           ELSE Goto(r, "file_read", <<>>, tr)
    /\ UNCHANGED <<api_key, file, uuids, removed, view>>

\* main.py 410-444: the content is read and decoded, and analyze_text is called.
AnalyzeFileRead(r) ==
    /\ Scheduled(r)
    /\ reqs[r].pc = "file_read"
    /\ LET upload == reqs[r].arg
           filename == upload.filename
           filetype == file_type(filename)
       IN  IF filetype \in supported_types
           THEN Goto(r, "text_settings",
                     [request |-> [document_text |-> upload.content,
                                   filename |-> filename,
                                   filetype |-> filetype,
                                   filesize |-> upload.size]],
                     reqs[r].trace)
           ELSE Finish(r, HTTPException(400, "File type not directly supported"),
                       reqs[r].trace)
    /\ UNCHANGED <<api_key, file, uuids, removed, view>>

(***************************************************************************)
(* The other handlers.                                                     *)
(***************************************************************************)
\* main.py 486-487: delete_incident up to the call of save_incidents.
DeleteLoad(r) ==
    /\ Scheduled(r)
    /\ reqs[r].pc = "del_load"
    /\ LET loaded == load_incidents(file)
       IN  IF loaded.ok
           THEN Goto(r, "save_open",
                     [incidents |-> without_incident(loaded.v, reqs[r].arg),
                      gone |-> {reqs[r].arg} \cap Ids(loaded.v)],
                     reqs[r].trace)
           ELSE Finish(r, HTTPException(500, "Internal Server Error"),
                       [reqs[r].trace EXCEPT !.exc = loaded.exc])
    /\ UNCHANGED <<api_key, file, uuids, removed, view>>

\* main.py 447-472
ListIncidents(r) ==
    /\ Scheduled(r)
    /\ reqs[r].pc = "list"
    /\ LET loaded == load_incidents(file)
           q == reqs[r].arg
       IN  IF loaded.ok
           THEN Finish(r, Response(get_incidents(loaded.v, q.limit, q.offset,
                                                 q.severity, q.department)),
                       reqs[r].trace)
           ELSE Finish(r, HTTPException(500, "Internal Server Error"),
                       [reqs[r].trace EXCEPT !.exc = loaded.exc])
    /\ UNCHANGED <<api_key, file, uuids, removed, view>>

\* main.py 474-481
GetIncident(r) ==
    /\ Scheduled(r)
    /\ reqs[r].pc = "get"
    /\ LET loaded == load_incidents(file)
       IN  IF ~loaded.ok
           THEN Finish(r, HTTPException(500, "Internal Server Error"),
                       [reqs[r].trace EXCEPT !.exc = loaded.exc])
           ELSE IF get_incident(loaded.v, reqs[r].arg) = <<>>
           THEN Finish(r, HTTPException(404, "Incident not found"), reqs[r].trace)
           ELSE Finish(r, Response(get_incident(loaded.v, reqs[r].arg)[1]),
                       reqs[r].trace)
    /\ UNCHANGED <<api_key, file, uuids, removed, view>>

\* main.py 498-545
GetStatistics(r) ==
    /\ Scheduled(r)
    /\ reqs[r].pc = "stats"
    /\ LET loaded == load_incidents(file)
       IN  IF ~loaded.ok
           THEN Finish(r, HTTPException(500, "Internal Server Error"),
                       [reqs[r].trace EXCEPT !.exc = loaded.exc])
           ELSE \E avg_score \in IF loaded.v = <<>> THEN {0}
                                 ELSE round_1(10 * sum(scores_of(loaded.v)), Len(loaded.v)) :
                    Finish(r, Response(get_statistics(loaded.v, avg_score)),
                           reqs[r].trace)
    /\ UNCHANGED <<api_key, file, uuids, removed, view>>

\* main.py 274-284: a field of the update that is not None replaces the setting.
UpdateSettings(r) ==
    /\ Scheduled(r)
    /\ reqs[r].pc = "settings"
    /\ api_key' = IF reqs[r].arg = JNull THEN api_key ELSE reqs[r].arg.str
    /\ Finish(r, Response([status |-> "updated"]), reqs[r].trace)
    /\ UNCHANGED <<file, uuids, removed, view>>

Next ==
    \E r \in Requests :
        \/ DispatchAnalyzeText(r)
        \/ DispatchAnalyzeFile(r)
        \/ DispatchUpdateSettings(r)
        \/ DispatchDelete(r)
        \/ DispatchClear(r)
        \/ DispatchList(r)
        \/ DispatchGet(r)
        \/ DispatchStats(r)
        \/ AnalyzeTextSettings(r)
        \/ AnalyzeTextOracle(r)
        \/ AnalyzeTextParse(r)
        \/ AddLoad(r)
        \/ SaveOpen(r)
        \/ SaveWrite(r)
        \/ AnalyzeFileSettings(r)
        \/ AnalyzeFileRead(r)
        \/ DeleteLoad(r)
        \/ ListIncidents(r)
        \/ GetIncident(r)
        \/ GetStatistics(r)
        \/ UpdateSettings(r)

Spec == Init /\ [][Next]_vars

(***************************************************************************)
(* The ledger alone: add_incident, delete_incident and clear_incidents as  *)
(* whole operations on an empty ledger, far enough to pass the cap.        *)
(***************************************************************************)
MaxAppends == 1003
ClearUntil == 2
LedgerDeleteTargets == {2, 600}

\* The result analyze_text hands to add_incident for an oracle text that
\* parses or that json.loads rejects (main.py 353-369, 378-395).
analysis_result(analysis_id, timestamp, request, response_text) ==
    LET parsed == parse_response(analysis_id, timestamp, request, response_text)
    IN  IF parsed.ok THEN parsed.v
        ELSE error_result(analysis_id, timestamp, request, parsed.exc)

SampleRequest == CHOOSE request \in TextRequests : TRUE
SampleTime == CHOOSE now \in Timestamps : TRUE
SampleTexts == <<Fenced("GOOD"), Plain("SPOOF"), NotJson, Plain("EMPTY")>>

\* The n-th analysis of a ledger run.
LedgerResult(n) ==
    analysis_result(n, SampleTime, SampleRequest, SampleTexts[(n % Len(SampleTexts)) + 1])

InitLedger ==
    /\ api_key = "sk-ant-1"
    /\ file = NoFile
    /\ reqs = [r \in Requests |-> NewRequest]
    /\ running = 0
    /\ uuids = 0
    /\ removed = {}
    /\ view = <<>>

LedgerAppend ==
    /\ uuids < MaxAppends
    /\ LET result == LedgerResult(uuid4(uuids))
           loaded == load_incidents(file).v
           incidents == add_incident(loaded, result, sha256_16(SampleRequest.document_text))
       IN  /\ file' = WrittenFile(incidents)
           /\ removed' = removed \cup ((Ids(loaded) \cup {result.id}) \ Ids(incidents))
    /\ uuids' = uuids + 1
    /\ UNCHANGED <<api_key, reqs, running, view>>

LedgerDelete ==
    \E incident_id \in LedgerDeleteTargets :
        /\ incident_id <= uuids
        /\ file' = WrittenFile(without_incident(load_incidents(file).v, incident_id))
        /\ removed' = removed \cup ({incident_id} \cap Ids(load_incidents(file).v))
        /\ UNCHANGED <<api_key, reqs, running, uuids, view>>

LedgerClear ==
    /\ uuids <= ClearUntil
    /\ file' = WrittenFile(<<>>)
    /\ removed' = removed \cup 1..uuids
    /\ UNCHANGED <<api_key, reqs, running, uuids, view>>

NextLedger == LedgerAppend \/ LedgerDelete \/ LedgerClear

SpecLedger == InitLedger /\ [][NextLedger]_vars

(***************************************************************************)
(* The queries as functions of the ledger: every ledger of up to           *)
(* MaxQueryLen analyses, and every filter and page of the bounded sets.    *)
(***************************************************************************)
MaxQueryLen == 3

QueryTexts == {Fenced("GOOD"), Plain("SPOOF"), NotJson, Plain("EMPTY")}

\* The ledger after analyses with these oracle texts, the first one last.
RECURSIVE LedgerOf(_)
LedgerOf(texts) ==
    IF texts = <<>> THEN <<>>
    ELSE add_incident(LedgerOf(Tail(texts)),
                      analysis_result(Len(texts), SampleTime, SampleRequest, Head(texts)),
                      sha256_16(SampleRequest.document_text))

QueryLedgers ==
    UNION { {LedgerOf(texts) : texts \in [1..n -> QueryTexts]} : n \in 0..MaxQueryLen }

QuerySeverities ==
    {JNull, JStr(""), JStr("CRITICAL"), JStr("critical"), JStr("LOW"), JStr("UNKNOWN")}
QueryDepartments == {JNull, JStr(""), JStr("Finance"), JStr("HR"), JStr("finance")}
\* limit and offset are plain int parameters (main.py 449-450): any integer is
\* accepted.
QueryLimits == {-1, 0, 1, 50}
QueryOffsets == {-2, 0, 1, 5}

InitQuery ==
    /\ api_key = "sk-ant-1"
    /\ file \in {NoFile} \cup {WrittenFile(ledger) : ledger \in QueryLedgers}
    /\ reqs = [r \in Requests |-> NewRequest]
    /\ running = 0
    /\ uuids = MaxQueryLen
    /\ removed = {}
    /\ view = <<>>

QueryList ==
    /\ view = <<>>
    /\ \E severity \in QuerySeverities, department \in QueryDepartments,
       limit \in QueryLimits, offset \in QueryOffsets :
        view' = << [op |-> "list", severity |-> severity, department |-> department,
                    limit |-> limit, offset |-> offset,
                    answer |-> get_incidents(load_incidents(file).v, limit, offset,
                                             severity, department)] >>
    /\ UNCHANGED <<api_key, file, reqs, running, uuids, removed>>

\* delete_incident (main.py 483-489) on the ledger, for ids in it and not in it.
QueryDelete ==
    /\ view = <<>>
    /\ \E incident_id \in 1..(MaxQueryLen + 1) :
        LET incidents == without_incident(load_incidents(file).v, incident_id)
        IN  /\ file' = WrittenFile(incidents)
            /\ removed' = removed \cup ({incident_id} \cap Ids(load_incidents(file).v))
            /\ view' = << [op |-> "delete", id |-> incident_id,
                           answer |-> Response([status |-> "deleted",
                                                id |-> incident_id])] >>
    /\ UNCHANGED <<api_key, reqs, running, uuids>>

\* get_statistics (main.py 498-545) on the ledger, as it is or after a delete.
QueryStats ==
    /\ view # <<>> => view[1].op = "delete"
    /\ LET incidents == load_incidents(file).v
       IN  \E avg_score \in IF incidents = <<>> THEN {0}
                             ELSE round_1(10 * sum(scores_of(incidents)), Len(incidents)) :
               view' = << [op |-> "stats",
                           answer |-> get_statistics(incidents, avg_score)] >>
    /\ UNCHANGED <<api_key, file, reqs, running, uuids, removed>>

NextQuery == QueryList \/ QueryDelete \/ QueryStats

SpecQuery == InitQuery /\ [][NextQuery]_vars

(***************************************************************************)
(* The statistics of longer ledgers: every ledger of up to MaxStatsLen     *)
(* analyses.                                                               *)
(***************************************************************************)
MaxStatsLen == 7

StatsTexts == {Fenced("GOOD"), Plain("SPOOF"), NotJson}

\* The ledgers of up to len analyses.
StatsLedgers(len) ==
    UNION { {LedgerOf(texts) : texts \in [1..n -> StatsTexts]} : n \in 0..len }

InitStats ==
    /\ api_key = "sk-ant-1"
    /\ file \in {WrittenFile(ledger) : ledger \in StatsLedgers(MaxStatsLen)}
    /\ reqs = [r \in Requests |-> NewRequest]
    /\ running = 0
    /\ uuids = MaxStatsLen
    /\ removed = {}
    /\ view = <<>>

NextStats == QueryStats

SpecStats == InitStats /\ [][NextStats]_vars

(***************************************************************************)
(* The derivation of an incident from a result, for the results of oracle  *)
(* outputs with scores around the threshold and with every level.          *)
(***************************************************************************)
DeriveDimensions == {"pii", "financial", "hr_employee"}
DeriveScores == {20, 50, 51, 70, 150}
DeriveDepartments == {"HR", "Finance", "Marketing"}
DeriveLevels == {"NONE", "MEDIUM", "HIGH", "CRITICAL", "high"}

DerivePayload(scores, levels) ==
    JObj([dimension_scores |-> JObj([k \in DeriveDimensions |-> JInt(scores[k])]),
          department_relevance |-> JObj([k \in DeriveDepartments |-> JStr(levels[k])])])

\* One analysis on the empty ledger (main.py 353-372).
Derive ==
    /\ view = <<>>
    /\ \E scores \in [DeriveDimensions -> DeriveScores],
          levels \in [DeriveDepartments -> DeriveLevels] :
        LET result == completed_result(uuid4(uuids), SampleTime, SampleRequest,
                                       DerivePayload(scores, levels)).v
        IN  /\ file' = WrittenFile(add_incident(load_incidents(file).v, result,
                                                sha256_16(SampleRequest.document_text)))
            /\ view' = << [op |-> "derive", result |-> result] >>
    /\ uuids' = uuids + 1
    /\ UNCHANGED <<api_key, reqs, running, removed>>

NextDerive == Derive

SpecDerive == InitLedger /\ [][NextDerive]_vars

(***************************************************************************)
(* Two runs of one analysis: the same request, generated id and timestamp, *)
(* and two answers of the oracle.                                          *)
(***************************************************************************)
TwinTexts ==
    { Fenced("GOOD"), Plain("SPOOF"), Plain("EMPTY"), NotJson, FencedNewline("GOOD"),
      OpenFenceOnly("GOOD") }

\* main.py 345-397 on an empty ledger: the result returned and the ledger saved.
Run(analysis_id, timestamp, request, response_text) ==
    LET result == analysis_result(analysis_id, timestamp, request, response_text)
    IN  [result |-> result,
         ledger |-> add_incident(<<>>, result, sha256_16(request.document_text))]

Twin ==
    /\ view = <<>>
    /\ \E now \in Timestamps, request \in TextRequests,
          first \in TwinTexts, second \in TwinTexts :
        /\ view' = << [op |-> "twin", id |-> uuid4(uuids), timestamp |-> now,
                       first |-> Run(uuid4(uuids), now, request, first),
                       second |-> Run(uuid4(uuids), now, request, second)] >>
        /\ file' = WrittenFile(Run(uuid4(uuids), now, request, first).ledger)
    /\ uuids' = uuids + 1
    /\ UNCHANGED <<api_key, reqs, running, removed>>

\* Ids handed out before the analysis.
Earlier ==
    /\ view = <<>>
    /\ uuids < MaxRequests
    /\ uuids' = uuids + 1
    /\ UNCHANGED <<api_key, file, reqs, running, removed, view>>

NextTwin == Twin \/ Earlier

SpecTwin == InitLedger /\ [][NextTwin]_vars

(***************************************************************************)
(* Fence stripping on every text of up to MaxLines lines.                  *)
(***************************************************************************)
MaxLines == 3

FenceLines == { <<>>, <<Fence>>, <<Fence, "json">>, <<"GOOD">>, <<"not", "json">> }

FenceTexts == UNION { [1..n -> FenceLines] : n \in 1..MaxLines }

\* One analysis whose oracle answers text (main.py 343-397).
Strip ==
    /\ view = <<>>
    /\ \E text \in FenceTexts :
        LET run == Run(uuid4(uuids), SampleTime, SampleRequest, text)
        IN  /\ view' = << [op |-> "fence", text |-> text,
                           stripped |-> strip_fence(text),
                           result |-> run.result] >>
            /\ file' = WrittenFile(run.ledger)
    /\ uuids' = uuids + 1
    /\ UNCHANGED <<api_key, reqs, running, removed>>

NextFence == Strip

SpecFence == InitLedger /\ [][NextFence]_vars

(***************************************************************************)
(* Oracle outputs with fields left out: every object got from a complete   *)
(* one by dropping top-level keys, dimension scores, department ratings    *)
(* and the optional keys of its finding.                                   *)
(***************************************************************************)
FullOutput == Payloads["GOOD"].obj

\* The dictionary d without the keys outside keys.
Restrict(d, keys) == [k \in DOMAIN d \cap keys |-> d[k]]

OptionalDimensions == {"pii", "financial"}
OptionalDepartments == {"Finance", "Legal"}
OptionalFindingKeys == {"count", "examples"}

PartialOutput(keys, dims, depts, fkeys) ==
    LET full == FullOutput
        part == [full EXCEPT
                    !["dimension_scores"] =
                        JObj(Restrict(@.obj, (DOMAIN @.obj \ OptionalDimensions) \cup dims)),
                    !["department_relevance"] =
                        JObj(Restrict(@.obj, (DOMAIN @.obj \ OptionalDepartments) \cup depts)),
                    !["findings"] =
                        JList(<<JObj(Restrict(@.list[1].obj,
                                              (DOMAIN @.list[1].obj \ OptionalFindingKeys)
                                                  \cup fkeys))>>)]
    IN  JObj(Restrict(part, keys))

\* One analysis on the empty ledger whose oracle output parses to a partial
\* object (main.py 350-374, 399-400).
Partial ==
    /\ view = <<>>
    /\ \E keys \in SUBSET DOMAIN FullOutput, dims \in SUBSET OptionalDimensions,
          depts \in SUBSET OptionalDepartments, fkeys \in SUBSET OptionalFindingKeys :
        LET data == PartialOutput(keys, dims, depts, fkeys)
            built == completed_result(uuid4(uuids), SampleTime, SampleRequest, data)
        IN  /\ view' = << [op |-> "partial", data |-> data.obj, built |-> built] >>
            /\ file' = IF built.ok
                       THEN WrittenFile(add_incident(load_incidents(file).v, built.v,
                                                     sha256_16(SampleRequest.document_text)))
                       ELSE file
    /\ uuids' = uuids + 1
    /\ UNCHANGED <<api_key, reqs, running, removed>>

NextPartial == Partial

SpecPartial == InitLedger /\ [][NextPartial]_vars

(***************************************************************************)
(* Properties of the ledger (SpecLedger).                                  *)
(***************************************************************************)
\* C1: whatever appends, deletes and clears an empty ledger has gone through,
\* it holds at most 1000 incidents.
C1_LedgerWithinCap == Len(file.data) <= MaxIncidents

\* The ledger is full although more than 1001 ids were handed out and incident
\* 600 was deleted on the way: the cap has discarded entries.
C1_Witness ==
    /\ Len(file.data) = MaxIncidents
    /\ uuids > MaxIncidents + 1
    /\ 600 \in removed

\* C2: an append puts the new incident at position 0 and keeps the stored
\* incidents behind it in their order; past 1000 entries only the tail is
\* dropped, so that 1001 appends to an empty ledger leave the 1000 newest,
\* most recent first, the first-appended one alone missing.
C2_AppendFrontEvictTail ==
    [][uuids' = uuids + 1 =>
        LET old == file.data
            new == file'.data
        IN  /\ new[1].id = uuids'
            /\ Len(new) = Min(Len(old) + 1, MaxIncidents)
            /\ \A i \in 2..Len(new) : new[i] = old[i - 1]
            /\ (uuids' = MaxIncidents + 1 /\ removed' \subseteq {1}) =>
                  /\ Len(new) = MaxIncidents
                  /\ \A i \in 1..Len(new) : new[i].id = MaxIncidents + 2 - i
                  /\ removed' = {1}]_vars

\* 1001 incidents were appended to the empty ledger and nothing else was done:
\* the ledger holds 1000, the last-appended first, the second-appended last.
C2_Witness ==
    /\ uuids = MaxIncidents + 1
    /\ removed = {1}
    /\ Len(file.data) = MaxIncidents
    /\ file.data[1].id = MaxIncidents + 1
    /\ file.data[MaxIncidents].id = 2

(***************************************************************************)
(* Properties of the analysis handlers (Spec).                             *)
(***************************************************************************)
Done(r) == reqs[r].pc = "done"
Resp(r) == reqs[r].resp[1]
IsAnalysis(r) == reqs[r].kind \in {"analyze_text", "analyze_file"}

\* Request r ends in this step.
Finishes(r) == reqs[r].pc # "done" /\ reqs'[r].pc = "done"

\* Request r got a result back.
Acknowledged(r) == IsAnalysis(r) /\ Done(r) /\ Resp(r).status = 200

SafeDefaults(result) ==
    /\ result.overall_sensitivity_score = 0
    /\ \A k \in Range(DimensionNames) : result.dimension_scores[k] = 0
    /\ \A k \in Range(DepartmentNames) : result.department_relevance[k] = "NONE"

HasErrorMessage(result) == IsStr(result.error) /\ result.error.str # ""

\* The exceptions a parsed but schema-violating oracle output raises.
SchemaExceptions == {"AttributeError", "TypeError", "ValidationError"}

\* The exceptions json.loads raises for a text it cannot parse.
ParseExceptions ==
    {"JSONDecodeError: Expecting value", "JSONDecodeError: Extra data", "RecursionError"}

\* C3: when the oracle answers with a text that cannot be parsed, the request
\* ends with a result, not a failure: status error, score 0, level UNKNOWN, all
\* dimensions 0, all departments NONE, a non-empty error message; and the
\* ledger is the ledger of before the call with one incident more, at the
\* front, of status error and with the id of the result.
C3_ParseFailureRecorded ==
    [][\A r \in Requests :
        ( /\ Finishes(r)
          /\ reqs'[r].trace.oracle = "text"
          /\ reqs'[r].trace.exc \in ParseExceptions ) =>
            /\ reqs'[r].resp[1].status = 200
            /\ LET result == reqs'[r].resp[1].body
               IN  /\ result.status = "error"
                   /\ result.sensitivity_level = "UNKNOWN"
                   /\ SafeDefaults(result)
                   /\ HasErrorMessage(result)
                   /\ Len(file'.data) = Len(reqs[r].loc.before.data) + 1
                   /\ Tail(file'.data) = reqs[r].loc.before.data
                   /\ file'.data[1].id = result.id
                   /\ file'.data[1].status = "error"
                   /\ reqs'[r].trace.saves = 1]_vars

\* C4: an oracle output that parses but violates the schema never fails the
\* request: analyze returns a result flagged status=error and records one
\* incident for it.
C4_SchemaViolationRecovered ==
    \A r \in Requests :
        ( /\ Done(r)
          /\ IsAnalysis(r)
          /\ reqs[r].trace.oracle = "text"
          /\ reqs[r].trace.exc \in SchemaExceptions ) =>
            /\ Resp(r).status = 200
            /\ Resp(r).body.status = "error"
            /\ reqs[r].trace.saves = 1

\* C5: when the call of the oracle raises, the request ends with a failure and
\* no result, and the ledger is what it was before the call.
C5_OracleFailureIsFatal ==
    [][\A r \in Requests :
        (Finishes(r) /\ reqs'[r].trace.oracle \in OracleFailures) =>
            /\ reqs'[r].resp[1].status = 500
            /\ "body" \notin DOMAIN reqs'[r].resp[1]
            /\ reqs'[r].trace.saves = 0
            /\ file' = reqs[r].loc.before
            /\ file' = file]_vars

\* The oracle failed for an analysis while the ledger held an incident; the
\* request got a 500 and the ledger still holds just that incident.
C5_Witness ==
    \E r \in Requests :
        /\ Done(r)
        /\ reqs[r].trace.oracle \in OracleFailures
        /\ Resp(r).status = 500
        /\ Len(file.data) = 1
        /\ \E q \in Requests : Acknowledged(q) /\ file.data[1].id = Resp(q).body.id

\* C6: a request that has seen an empty api_key was refused at that point with
\* the configuration error: the oracle was not called for it and it saved
\* nothing to the ledger.
C6_NoKeyNoOracle ==
    \A r \in Requests :
        reqs[r].trace.empty_key =>
            /\ Done(r)
            /\ Resp(r) = ApiKeyNotConfigured
            /\ reqs[r].trace.oracle = "none"
            /\ reqs[r].trace.saves = 0

\* An upload passed the first credential check, the key was emptied while the
\* upload was being read, and the second check refused the request.
C6_Witness ==
    \E r \in Requests :
        /\ reqs[r].kind = "analyze_file"
        /\ reqs[r].trace.checks = 2
        /\ reqs[r].trace.empty_key
        /\ Resp(r).status = 400
        /\ file = NoFile

\* C7: in every result analyze returns, status error comes with overall score 0,
\* all dimensions 0, all departments NONE and a non-empty error message, and
\* status completed comes without an error.
C7_StatusInvariant ==
    \A r \in Requests :
        Acknowledged(r) =>
            LET result == Resp(r).body
            IN  /\ result.status \in {"completed", "error"}
                /\ result.status = "error" => SafeDefaults(result) /\ HasErrorMessage(result)
                /\ result.status = "completed" => result.error = JNull

\* Two analyses have returned: one an error result, the other a completed
\* result built from an oracle output that itself carries status and error.
C7_Witness ==
    \E r, q \in Requests :
        /\ Acknowledged(r) /\ Resp(r).body.status = "error"
        /\ Acknowledged(q) /\ Resp(q).body.status = "completed"
        /\ Resp(q).body.sensitivity_level = "critical"

\* C8: whenever the event loop is between handlers, the incident of every
\* analysis that has returned a result is in the ledger, unless a delete of its
\* id, a clear or the cap has taken it out; with no incident taken out, the
\* ledger holds exactly one incident per returned analysis.
C8_NoLostAppend ==
    running = 0 =>
        /\ \A r \in Requests :
              Acknowledged(r) =>
                  Resp(r).body.id \in Ids(file.data) \cup removed
        /\ removed = {} =>
              Len(file.data) = Cardinality({r \in Requests : Acknowledged(r)})

\* Every request of the run was an analysis, all of them returned a result, and
\* the ledger holds one incident for each.
C8_Witness ==
    /\ running = 0
    /\ removed = {}
    /\ \A r \in Requests : Acknowledged(r)
    /\ Len(file.data) = MaxRequests

\* The program points between a handler's load_incidents and the end of its
\* save_incidents.
MidOperation == {"save_open", "save_write"}

ReadKinds == {"get_incidents", "get_incident", "get_statistics"}

\* C9: a read of the ledger never runs while another handler is between its
\* load and the end of its save: the file it loads is whole (not emptied by a
\* save in progress), holds at most 1000 incidents, and the read is answered.
C9_ReadsSeeWholeOperations ==
    \A r \in Requests :
        reqs[r].kind \in ReadKinds =>
            /\ running = r =>
                  /\ ~file.torn
                  /\ Len(file.data) <= MaxIncidents
                  /\ \A q \in Requests \ {r} : reqs[q].pc \notin MidOperation
            /\ Done(r) => Resp(r).status \in {200, 404}

\* A list has run after an analysis had completed: it saw exactly the incident
\* of that analysis.
C9_Witness ==
    \E r, q \in Requests :
        /\ reqs[r].kind = "get_incidents" /\ Done(r)
        /\ Resp(r).status = 200
        /\ Resp(r).body.total = 1
        /\ Acknowledged(q)
        /\ Resp(r).body.incidents[1].id = Resp(q).body.id

(***************************************************************************)
(* Properties of the queries (SpecQuery).                                  *)
(***************************************************************************)
\* The positions of the ledger whose incident satisfies Match.
Matching(Match(_)) == {k \in 1..Len(file.data) : Match(file.data[k])}

\* C10 as stated: a given (non-empty) severity selects the entries whose
\* sensitivity_level equals it, a given department the entries whose
\* departments_affected contains it, both the intersection; total counts the
\* selected entries.
C10_ExactMatchFilter ==
    (view # <<>> /\ view[1].op = "list") =>
        LET q == view[1]
            Match(i) ==
                /\ Truthy(q.severity) => i.sensitivity_level = q.severity.str
                /\ Truthy(q.department) =>
                      q.department.str \in Range(i.departments_affected)
        IN  /\ q.answer.total = Cardinality(Matching(Match))
            /\ \A j \in 1..Len(q.answer.incidents) : Match(q.answer.incidents[j])

\* C10, amended: a non-empty severity selects the entries whose
\* sensitivity_level equals the severity converted to upper case, a non-empty
\* department the entries whose departments_affected contains it, both the
\* intersection, and an absent or empty filter selects every entry; total
\* counts the selected entries whatever limit and offset are, and the page
\* holds selected entries only.
C10_UpperCasedFilter ==
    (view # <<>> /\ view[1].op = "list") =>
        LET q == view[1]
            Match(i) ==
                /\ q.severity \notin {JNull, JStr("")} =>
                      i.sensitivity_level = Upper(q.severity.str)
                /\ q.department \notin {JNull, JStr("")} =>
                      q.department.str \in Range(i.departments_affected)
        IN  /\ q.answer.total = Cardinality(Matching(Match))
            /\ \A j \in 1..Len(q.answer.incidents) : Match(q.answer.incidents[j])

\* A list with severity "critical" and department "Finance" on a ledger of
\* three incidents, one of them of level "critical": the two CRITICAL incidents
\* of Finance are counted, the "critical" one is not.
C10_Witness ==
    /\ view # <<>>
    /\ view[1].op = "list"
    /\ view[1].severity = JStr("critical")
    /\ view[1].department = JStr("Finance")
    /\ view[1].answer.total = 2
    /\ Len(file.data) = 3
    /\ \E k \in 1..3 : file.data[k].sensitivity_level = "critical"

\* The entries the list of view q selects, in the order of the ledger.
Filtered(q) ==
    SelectSeq(file.data,
              LAMBDA i :
                  /\ Truthy(q.severity) => i.sensitivity_level = Upper(q.severity.str)
                  /\ Truthy(q.department) =>
                        q.department.str \in Range(i.departments_affected))

\* The entries of q at the (0-based) positions offset <= p < offset + limit.
Interval(q, offset, limit) ==
    SubSeq(q, Max(offset, 0) + 1, Min(offset + limit, Len(q)))

\* C11: the page of a list is the [offset, offset+limit) slice of the selected
\* entries in ledger order, and with an offset at or beyond their end it is
\* empty, the total still being their number.
C11_PageIsSlice ==
    (view # <<>> /\ view[1].op = "list") =>
        LET q == view[1]
        IN  /\ q.answer.incidents = Interval(Filtered(q), q.offset, q.limit)
            /\ q.answer.total = Len(Filtered(q))
            /\ q.offset >= Len(Filtered(q)) => q.answer.incidents = <<>>

\* C12: a delete answers without error whether the id is in the ledger or not;
\* afterwards no entry has the id, and every other incident is in the ledger
\* as it was, in the same relative order (with the id absent, the ledger is
\* what it was).
C12_DeleteFrame ==
    [][(view = <<>> /\ view' # <<>> /\ view'[1].op = "delete") =>
        LET incident_id == view'[1].id
            old == file.data
            new == file'.data
            others == {k \in 1..Len(old) : old[k].id # incident_id}
        IN  /\ view'[1].answer = Response([status |-> "deleted", id |-> incident_id])
            /\ incident_id \notin Ids(new)
            /\ Len(new) = Cardinality(others)
            /\ \A k \in others : \E j \in 1..Len(new) : new[j] = old[k]
            /\ \A i, j \in 1..Len(new) :
                  i < j => \E k, l \in others : k < l /\ old[k] = new[i] /\ old[l] = new[j]
            /\ incident_id \notin Ids(old) => new = old]_vars

\* The middle one of three incidents was deleted: the newest and the oldest
\* are left, in this order.
C12_Witness ==
    /\ view # <<>>
    /\ view[1].op = "delete"
    /\ view[1].id = 2
    /\ removed = {2}
    /\ Len(file.data) = 2
    /\ file.data[1].id = 3
    /\ file.data[2].id = 1

(***************************************************************************)
(* Properties of the statistics (SpecQuery).                               *)
(***************************************************************************)
\* The count a by_severity dictionary reports for a level (0 without the key).
Bucket(by_severity, level) ==
    IF level \in DOMAIN by_severity THEN by_severity[level] ELSE 0

\* How many incidents of the ledger satisfy P.
CountOf(P(_)) == Cardinality({k \in 1..Len(file.data) : P(file.data[k])})

\* C13: stats counts every incident of the ledger in one of the buckets LOW,
\* MEDIUM, HIGH, CRITICAL and UNKNOWN: an incident of a recognized level in the
\* bucket of its level, any other incident in UNKNOWN, so that the five counts
\* add up to the size of the ledger.
C13_UnknownBucket ==
    (view # <<>> /\ view[1].op = "stats") =>
        LET by_severity == view[1].answer.by_severity
            Recognized(i) == i.sensitivity_level \in SeverityLevels
            Unrecognized(i) == ~Recognized(i)
        IN  /\ \A level \in SeverityLevels :
                  LET OfLevel(i) == i.sensitivity_level = level
                  IN  Bucket(by_severity, level) = CountOf(OfLevel)
            /\ Bucket(by_severity, "UNKNOWN") = CountOf(Unrecognized)
            /\ Bucket(by_severity, "LOW") + Bucket(by_severity, "MEDIUM")
                  + Bucket(by_severity, "HIGH") + Bucket(by_severity, "CRITICAL")
                  + Bucket(by_severity, "UNKNOWN") = Len(file.data)

\* C14: on an empty ledger stats reports 0 scans, 0 in each of the severity
\* buckets it reports for a ledger with incidents (LOW, MEDIUM, HIGH, CRITICAL,
\* UNKNOWN), no department and no category with a count, avg_score 0 and an
\* empty recent_critical list.
C14_EmptyLedgerStats ==
    (view # <<>> /\ view[1].op = "stats" /\ file.data = <<>>) =>
        LET stats == view[1].answer
        IN  /\ stats.total_scans = 0
            /\ \A level \in SeverityLevels \cup {"UNKNOWN"} :
                  /\ level \in DOMAIN stats.by_severity
                  /\ stats.by_severity[level] = 0
            /\ \A dept \in DOMAIN stats.by_department : stats.by_department[dept] = 0
            /\ \A cat \in DOMAIN stats.by_category : stats.by_category[cat] = 0
            /\ stats.avg_score = 0
            /\ stats.recent_critical = <<>>

\* C15: recent_critical is the first min(5, k) of the k CRITICAL incidents of
\* the ledger, in the order of the ledger, and holds no other incident.
C15_RecentCritical ==
    (view # <<>> /\ view[1].op = "stats") =>
        LET recent == view[1].answer.recent_critical
            critical == {k \in 1..Len(file.data) :
                            file.data[k].sensitivity_level = "CRITICAL"}
            Nth(j) == CHOOSE k \in critical :
                          Cardinality({m \in critical : m <= k}) = j
        IN  /\ Len(recent) = Min(5, Cardinality(critical))
            /\ \A j \in 1..Len(recent) :
                  /\ recent[j] = file.data[Nth(j)]
                  /\ recent[j].sensitivity_level = "CRITICAL"

\* Six of the seven incidents of the ledger are CRITICAL, the newest is not:
\* recent_critical holds five, from the second of the ledger to the sixth.
C15_Witness ==
    /\ view # <<>>
    /\ view[1].op = "stats"
    /\ Len(file.data) = 7
    /\ file.data[1].sensitivity_level = "critical"
    /\ \A k \in 2..7 : file.data[k].sensitivity_level = "CRITICAL"
    /\ Len(view[1].answer.recent_critical) = 5
    /\ view[1].answer.recent_critical[1] = file.data[2]
    /\ view[1].answer.recent_critical[5] = file.data[6]

(***************************************************************************)
(* Properties of the derived incident (SpecDerive).                        *)
(***************************************************************************)
\* q lists names of the sequence names, each once, in the order of names.
InDeclarationOrder(q, names) ==
    \A i, j \in 1..Len(q) :
        i < j => \E k, l \in 1..Len(names) : k < l /\ names[k] = q[i] /\ names[l] = q[j]

\* C16: the incident derived from a result has as top_categories the names of
\* the dimensions scored above 50 (50 itself excluded) and as
\* departments_affected the names of the departments rated HIGH or CRITICAL,
\* both in the order of declaration, and deriving from the result again gives
\* the same incident.
C16_DeriveThresholds ==
    (view # <<>> /\ view[1].op = "derive") =>
        LET result == view[1].result
            incident == file.data[1]
        IN  /\ Range(incident.top_categories) =
                  {k \in Range(DimensionNames) : result.dimension_scores[k] > 50}
            /\ InDeclarationOrder(incident.top_categories, DimensionNames)
            /\ Range(incident.departments_affected) =
                  {k \in Range(DepartmentNames) :
                      result.department_relevance[k] \in {"HIGH", "CRITICAL"}}
            /\ InDeclarationOrder(incident.departments_affected, DepartmentNames)
            /\ incident = derive_incident(result, incident.hash)

\* financial=70, pii=20 and hr_employee=50, Finance HIGH, HR NONE: the incident
\* has top_categories ["financial"] and departments_affected ["Finance"].
C16_Witness ==
    /\ view # <<>>
    /\ view[1].op = "derive"
    /\ view[1].result.dimension_scores["financial"] = 70
    /\ view[1].result.dimension_scores["pii"] = 20
    /\ view[1].result.dimension_scores["hr_employee"] = 50
    /\ view[1].result.department_relevance["Finance"] = "HIGH"
    /\ view[1].result.department_relevance["HR"] = "NONE"
    /\ view[1].result.department_relevance["Marketing"] = "high"
    /\ file.data[1].top_categories = <<"financial">>
    /\ file.data[1].departments_affected = <<"Finance">>

(***************************************************************************)
(* Properties of two runs of one analysis (SpecTwin).                      *)
(***************************************************************************)
\* C17: whatever the oracle answers, the result and the incident of an
\* analysis carry the id and the timestamp generated for the request: two runs
\* that differ in the oracle's text only agree on them.
C17_IdentityFromRequest ==
    (view # <<>> /\ view[1].op = "twin") =>
        LET q == view[1]
        IN  \A run \in {q.first, q.second} :
                /\ run.result.id = q.id
                /\ run.result.timestamp = q.timestamp
                /\ Len(run.ledger) = 1
                /\ run.ledger[1].id = q.id
                /\ run.ledger[1].timestamp = q.timestamp

\* One run got an output that parses and carries a timestamp of its own, the
\* other a text that does not parse: one result is completed, the other an
\* error, and both have the generated timestamp.
C17_Witness ==
    /\ view # <<>>
    /\ view[1].op = "twin"
    /\ view[1].first.result.status = "completed"
    /\ view[1].first.result.sensitivity_level = "critical"
    /\ view[1].second.result.status = "error"
    /\ view[1].first.result.timestamp = view[1].second.result.timestamp
    /\ view[1].first.ledger[1].id = view[1].second.ledger[1].id

RelevanceLevels == {"NONE", "LOW", "MEDIUM", "HIGH", "CRITICAL"}

\* C18: in the result built from an oracle output that parses, every dimension
\* score is between 0 and 100 and every department relevance is one of NONE,
\* LOW, MEDIUM, HIGH, CRITICAL, whatever the output held for them.
C18_RangesEnforced ==
    (view # <<>> /\ view[1].op = "derive") =>
        LET result == view[1].result
        IN  /\ \A k \in Range(DimensionNames) :
                  result.dimension_scores[k] \in 0..100
            /\ \A k \in Range(DepartmentNames) :
                  result.department_relevance[k] \in RelevanceLevels

(***************************************************************************)
(* Properties of the incidents of the service (Spec).                      *)
(***************************************************************************)
\* The entries of the ledger made for result.
IncidentsOf(result) == SelectSeq(file.data, LAMBDA i : i.id = result.id)

\* Between handlers, an analysis that has returned a result has one incident
\* in the ledger, with the result's id, level, score and status, or none after
\* a delete, a clear or the cap took it out; and no two entries share an id.
OneIncidentEach ==
    running = 0 =>
        /\ \A r \in Requests :
              Acknowledged(r) =>
                  LET result == Resp(r).body
                      made == IncidentsOf(result)
                  IN  /\ reqs[r].trace.saves = 1
                      /\ Len(made) = IF result.id \in removed THEN 0 ELSE 1
                      /\ \A k \in 1..Len(made) :
                            /\ made[k].sensitivity_level = result.sensitivity_level
                            /\ made[k].overall_score = result.overall_sensitivity_score
                            /\ made[k].status = result.status
        /\ Cardinality(Ids(file.data)) = Len(file.data)

\* A step from one saved ledger to another leaves the incidents that stay as
\* they were.
IncidentsUnchanged ==
    (~file.torn /\ ~file'.torn) =>
        \A k \in 1..Len(file'.data) :
            file'.data[k].id \in Ids(file.data) => file'.data[k] \in Range(file.data)

TextOf(lines) == IF lines = <<>> THEN << <<>> >> ELSE lines

\* C20: a text that begins with a fence marker loses its first line, and also
\* its last line exactly when that line is a closing fence marker; any other
\* text is left as it is; so an object that parses, between an opening fence
\* line and a closing fence line, gives a completed result.
C20_FenceStripping ==
    (view # <<>> /\ view[1].op = "fence") =>
        LET text == view[1].text
            n == Len(text)
            begins == text[1] # <<>> /\ text[1][1] = Fence
            closes == text[n] = <<Fence>>
        IN  /\ ~begins => view[1].stripped = text
            /\ (begins /\ closes) => view[1].stripped = TextOf(SubSeq(text, 2, n - 1))
            /\ (begins /\ ~closes) => view[1].stripped = TextOf(SubSeq(text, 2, n))
            /\ (begins /\ closes /\ n = 3 /\ text[2] = <<"GOOD">>) =>
                  /\ view[1].result.status = "completed"
                  /\ view[1].result.sensitivity_level = "CRITICAL"

\* The oracle's object came between an opening fence line with a language tag
\* and a closing fence line, and the result is completed.
C20_Witness ==
    /\ view # <<>>
    /\ view[1].op = "fence"
    /\ view[1].text = << <<Fence, "json">>, <<"GOOD">>, <<Fence>> >>
    /\ view[1].stripped = << <<"GOOD">> >>
    /\ view[1].result.status = "completed"
    /\ file.data[1].status = "completed"

(***************************************************************************)
(* Properties of the defaults (SpecPartial).                               *)
(***************************************************************************)
\* The dictionary under key in d, or the empty one.
Sub(d, key) == IF key \in DOMAIN d THEN d[key].obj ELSE <<>>

\* C21: an oracle output that parses with fields left out gives a completed
\* result, recorded as one incident, in which each field left out has its
\* default: a dimension score 0, a department rating NONE, findings,
\* regulatory_concerns and recommended_actions empty, confidence 0.5,
\* sensitivity_level LOW, overall score 0, reasoning empty, the count of a
\* finding 1 and its examples empty; and each field given has its value.
C21_AbsentFieldsDefault ==
    (view # <<>> /\ view[1].op = "partial") =>
        LET d == view[1].data
            given(key) == key \in DOMAIN d
        IN  /\ view[1].built.ok
            /\ LET result == view[1].built.v
               IN  /\ result.status = "completed"
                   /\ result.error = JNull
                   /\ \A k \in Range(DimensionNames) :
                         result.dimension_scores[k] =
                            IF k \in DOMAIN Sub(d, "dimension_scores")
                            THEN d["dimension_scores"].obj[k].int ELSE 0
                   /\ \A k \in Range(DepartmentNames) :
                         result.department_relevance[k] =
                            IF k \in DOMAIN Sub(d, "department_relevance")
                            THEN d["department_relevance"].obj[k].str ELSE "NONE"
                   /\ ~given("findings") => result.findings = <<>>
                   /\ given("findings") =>
                         /\ Len(result.findings) = 1
                         /\ result.findings[1].category = "financial"
                         /\ result.findings[1].count =
                               IF "count" \in DOMAIN d["findings"].list[1].obj
                               THEN 2 ELSE 1
                         /\ result.findings[1].examples =
                               IF "examples" \in DOMAIN d["findings"].list[1].obj
                               THEN <<"[REDACTED]">> ELSE <<>>
                   /\ result.regulatory_concerns =
                         IF given("regulatory_concerns") THEN <<"SOX">> ELSE <<>>
                   /\ result.recommended_actions =
                         IF given("recommended_actions") THEN <<"restrict access">>
                         ELSE <<>>
                   /\ result.confidence = IF given("confidence") THEN 9 ELSE 5
                   /\ result.sensitivity_level =
                         IF given("sensitivity_level") THEN "CRITICAL" ELSE "LOW"
                   /\ result.overall_sensitivity_score =
                         IF given("overall_sensitivity_score") THEN 95 ELSE 0
                   /\ result.reasoning = IF given("reasoning") THEN "salary data" ELSE ""
                   /\ Len(file.data) = 1
                   /\ file.data[1].id = result.id
                   /\ file.data[1].status = "completed"
                   /\ file.data[1].sensitivity_level = result.sensitivity_level

\* The oracle's object held nothing but a finding without count and examples
\* and one dimension score: everything else is at its default.
C21_Witness ==
    /\ view # <<>>
    /\ view[1].op = "partial"
    /\ DOMAIN view[1].data = {"findings", "dimension_scores"}
    /\ DOMAIN view[1].data["dimension_scores"].obj = {"legal_compliance"}
    /\ view[1].built.ok
    /\ view[1].built.v.findings[1].count = 1
    /\ view[1].built.v.confidence = 5
    /\ view[1].built.v.sensitivity_level = "LOW"
    /\ view[1].built.v.dimension_scores["pii"] = 0
    /\ view[1].built.v.dimension_scores["legal_compliance"] = 50
    /\ view[1].built.v.department_relevance["Finance"] = "NONE"
    /\ file.data[1].status = "completed"

====
